---- MODULE Spec2Model ----
(***************************************************************************)
(* Permeability estimator (radial flow), src/rate.py.                      *)
(*                                                                         *)
(* The script is a Streamlit page: it is executed top to bottom on every   *)
(* widget interaction.  One execution reads nine number inputs and the     *)
(* multiselect, computes the point estimate behind the Pe > Pwf gate, then *)
(* runs the eight "if <label> in options" sweeps in source order and       *)
(* renders the figure.                                                     *)
(*                                                                         *)
(* Numbers.  The program computes in binary floating point (Python float   *)
(* and numpy float64).  The model keeps the floating-point structure       *)
(* (sign, significand, exponent, signed zero, +-inf, nan, rounding to      *)
(* nearest-even after every operation) with a 4-digit decimal significand, *)
(* so that every intermediate product fits 32-bit integer arithmetic.      *)
(* Option and label strings are the script's, with the Greek letters       *)
(* spelled out (mu, dP).                                                   *)
(***************************************************************************)
EXTENDS Integers, Sequences, FiniteSets

----------------------------------------------------------------------------
(* Floating-point values: s * m * 10^e, m = 0 or MantMin <= m <= MantMax.   *)

MantDigits == 4
MantMin == 1000
MantMax == 9999

Fin(s, m, e) == [k |-> "fin", s |-> s, m |-> m, e |-> e]
Zero(s) == Fin(s, 0, 0)
Inf(s) == [k |-> "inf", s |-> s, m |-> 0, e |-> 0]
NaN == [k |-> "nan", s |-> 1, m |-> 0, e |-> 0]

IsNaN(a) == a.k = "nan"
IsInf(a) == a.k = "inf"
IsFin(a) == a.k = "fin"
IsZero(a) == a.k = "fin" /\ a.m = 0

NumDigits(n) ==
  IF n < 10 THEN 1 ELSE IF n < 100 THEN 2 ELSE IF n < 1000 THEN 3
  ELSE IF n < 10000 THEN 4 ELSE IF n < 100000 THEN 5
  ELSE IF n < 1000000 THEN 6 ELSE IF n < 10000000 THEN 7
  ELSE IF n < 100000000 THEN 8 ELSE IF n < 1000000000 THEN 9 ELSE 10

(* n / d rounded to the nearest integer, ties to even (n >= 0, d > 0). *)
RoundDiv(n, d) ==
  LET qq == n \div d
      r == n % d
  IN IF 2 * r > d \/ (2 * r = d /\ qq % 2 = 1) THEN qq + 1 ELSE qq

(* The float nearest to s * n * 10^e, for an integer n >= 0. *)
Norm(s, n, e) ==
  IF n = 0 THEN Zero(s)
  ELSE LET d == NumDigits(n)
       IN IF d <= MantDigits
          THEN Fin(s, n * 10^(MantDigits - d), e - (MantDigits - d))
          ELSE LET r == RoundDiv(n, 10^(d - MantDigits))
               IN IF r > MantMax
                  THEN Fin(s, MantMin, e + (d - MantDigits) + 1)
                  ELSE Fin(s, r, e + (d - MantDigits))

(* Literals: FromInt(500) is 500.0, Dec(333, -3) is 0.333. *)
Dec(n, e) == IF n < 0 THEN Norm(-1, -n, e) ELSE Norm(1, n, e)
FromInt(n) == Dec(n, 0)

Neg(a) == IF IsNaN(a) THEN NaN ELSE [a EXCEPT !.s = -a.s]

Mul(a, b) ==
  IF IsNaN(a) \/ IsNaN(b) THEN NaN
  ELSE IF IsInf(a) \/ IsInf(b)
       THEN IF IsZero(a) \/ IsZero(b) THEN NaN ELSE Inf(a.s * b.s)
  ELSE IF a.m = 0 \/ b.m = 0 THEN Zero(a.s * b.s)
  ELSE Norm(a.s * b.s, a.m * b.m, a.e + b.e)

(* numpy true division: a zero divisor gives inf or nan, never an exception. *)
Div(a, b) ==
  IF IsNaN(a) \/ IsNaN(b) THEN NaN
  ELSE IF IsInf(a) THEN (IF IsInf(b) THEN NaN ELSE Inf(a.s * b.s))
  ELSE IF IsInf(b) THEN Zero(a.s * b.s)
  ELSE IF b.m = 0 THEN (IF a.m = 0 THEN NaN ELSE Inf(a.s * b.s))
  ELSE IF a.m = 0 THEN Zero(a.s * b.s)
  ELSE IF a.m >= b.m
       THEN Norm(a.s * b.s, RoundDiv(a.m * 10^(MantDigits - 1), b.m),
                 a.e - b.e - (MantDigits - 1))
       ELSE Norm(a.s * b.s, RoundDiv(a.m * 10^MantDigits, b.m),
                 a.e - b.e - MantDigits)

AddFin(a, b) ==
  IF a.m = 0 /\ b.m = 0 THEN Zero(IF a.s = -1 /\ b.s = -1 THEN -1 ELSE 1)
  ELSE IF a.m = 0 THEN b
  ELSE IF b.m = 0 THEN a
  ELSE LET hi == IF a.e >= b.e THEN a ELSE b
           lo == IF a.e >= b.e THEN b ELSE a
           d == hi.e - lo.e
       IN IF d > MantDigits + 1 THEN hi
          ELSE LET n == hi.s * hi.m * 10^d + lo.s * lo.m
               IN IF n = 0 THEN Zero(1)
                  ELSE IF n < 0 THEN Norm(-1, -n, lo.e)
                  ELSE Norm(1, n, lo.e)

Add(a, b) ==
  IF IsNaN(a) \/ IsNaN(b) THEN NaN
  ELSE IF IsInf(a) THEN (IF IsInf(b) /\ a.s # b.s THEN NaN ELSE a)
  ELSE IF IsInf(b) THEN b
  ELSE AddFin(a, b)

Sub(a, b) == Add(a, Neg(b))

(* Comparisons: every comparison with nan is false, -0.0 = 0.0. *)
Lt(a, b) ==
  /\ ~IsNaN(a) /\ ~IsNaN(b)
  /\ LET d == Sub(a, b)
     IN ~IsNaN(d) /\ d.s = -1 /\ (IsInf(d) \/ d.m # 0)
Eq(a, b) ==
  /\ ~IsNaN(a) /\ ~IsNaN(b)
  /\ \/ a = b
     \/ IsZero(a) /\ IsZero(b)
Le(a, b) == Lt(a, b) \/ Eq(a, b)
Gt(a, b) == Lt(b, a)

----------------------------------------------------------------------------
(* numpy.log: natural logarithm.  log(0) = -inf, log(x < 0) = nan.  For x > 0
   the argument m * 10^e is reduced to c * 2^j * 10^(e+3) with c in
   [0.707, 1.414) and ln c = 2 atanh((c-1)/(c+1)) is summed in fixed point. *)

LogScale == 100000
Ln2 == 69315
Ln10 == 230259

LogPos(m, e) ==
  LET j == IF m < 1414 THEN 0 ELSE IF m < 2828 THEN 1
           ELSE IF m < 5657 THEN 2 ELSE 3
      dd == MantMin * 2^j
      sz == IF m >= dd THEN 1 ELSE -1
      z == RoundDiv((IF m >= dd THEN m - dd ELSE dd - m) * LogScale, m + dd)
      z2 == (z * z) \div LogScale
      t3 == (z * z2) \div LogScale
      t5 == (t3 * z2) \div LogScale
      t7 == (t5 * z2) \div LogScale
      sum == z + RoundDiv(t3, 3) + RoundDiv(t5, 5) + RoundDiv(t7, 7)
  IN Dec(sz * 2 * sum + j * Ln2 + (e + MantDigits - 1) * Ln10, -5)

(* Mutant of Log: the decimal logarithm (np.log10 written for np.log). *)
Log_Base10(a) ==
  IF IsNaN(a) THEN NaN
  ELSE IF IsInf(a) THEN (IF a.s = 1 THEN a ELSE NaN)
  ELSE IF a.m = 0 THEN Inf(-1)
  ELSE IF a.s = -1 THEN NaN
  ELSE Div(LogPos(a.m, a.e), Dec(Ln10, -5))

Log(a) ==
  IF IsNaN(a) THEN NaN
  ELSE IF IsInf(a) THEN (IF a.s = 1 THEN a ELSE NaN)
  ELSE IF a.m = 0 THEN Inf(-1)
  ELSE IF a.s = -1 THEN NaN
  ELSE LogPos(a.m, a.e)

(* f"{k:.2f}": the value rounded to two decimals (inf and nan print as such). *)
Format2f(a) ==
  IF ~IsFin(a) \/ a.m = 0 \/ a.e >= -2 THEN a
  ELSE IF -2 - a.e > MantDigits THEN Zero(a.s)
  ELSE Norm(a.s, RoundDiv(a.m, 10^(-2 - a.e)), -2)

----------------------------------------------------------------------------
(* The page: widgets, script variables, outputs. *)

VARIABLES q, pe, pwf, h, mu, B, re, rw, skin, options,
          delta_p, k, message, ax, shown, exception, pc

inputs == <<q, pe, pwf, h, mu, B, re, rw, skin, options>>
vars == <<q, pe, pwf, h, mu, B, re, rw, skin, options,
          delta_p, k, message, ax, shown, exception, pc>>

(* A script variable that has not been assigned in this run. *)
None == [k |-> "none", s |-> 1, m |-> 0, e |-> 0]

(* np.linspace(..., 50) *)
NumSamples == 50
(* the most options selected at once in the multiselect *)
MaxSelected == 1

OptQ == "Flow rate (q) (STB/day)"
OptH == "Layer thickness (h) (ft)"
OptB == "Formation volume factor (B) (RB/STB)"
OptRe == "Drainage radius (re)"
OptMu == "Viscosity (mu)"
OptDp == "dP (Pe-Pwf)"
OptPe == "Reservoir Pressure (Pe)"
OptPwf == "Bottomhole Flowing Pressure (Pwf)"
OptSkin == "Skin (s)"
AllOptions == {OptQ, OptH, OptB, OptRe, OptMu, OptDp, OptPe, OptPwf, OptSkin}

(* Values a user types into the number inputs; each set holds the widget's
   default (value=...). *)
qInputs == {FromInt(500)}
peInputs == {FromInt(2000), FromInt(1000), FromInt(90)}
pwfInputs == {FromInt(1000), FromInt(10), FromInt(6000)}
hInputs == {FromInt(20), Zero(1)}
muInputs == {FromInt(1), FromInt(-1)}
BInputs == {FromInt(1)}
reInputs == {FromInt(1000)}
rwInputs == {Dec(333, -3), Zero(1)}
skinInputs == {Zero(1), FromInt(-10)}

ErrorText == "Pe must be greater than Pwf"

(* The values the script's expressions read in the current run. *)
Snapshot ==
  [q |-> q, pe |-> pe, pwf |-> pwf, h |-> h, mu |-> mu, B |-> B,
   re |-> re, rw |-> rw, skin |-> skin, delta_p |-> delta_p]

(* np.linspace(start, stop, 50): step = (stop - start) / 49,
   y = arange(50) * step + start, y[-1] = stop. *)
Linspace(start, stop) ==
  LET step == Div(Sub(stop, start), FromInt(NumSamples - 1))
  IN [i \in 1..NumSamples |->
        IF i = NumSamples THEN stop
        ELSE Add(Mul(FromInt(i - 1), step), start)]

(* Mutant of Permeability: the skin factor subtracted from the logarithm. *)
Permeability_SkinSubtracted(q_, mu_, B_, lg, skin_, h_, dp) ==
  Div(Mul(Mul(Mul(Mul(Dec(1626, -1), q_), mu_), B_), Sub(lg, skin_)),
      Mul(h_, dp))

(* (162.6 * q * mu * B * (lg + skin)) / (h * dp), lg = np.log(re/rw). *)
Permeability(q_, mu_, B_, lg, skin_, h_, dp) ==
  Div(Mul(Mul(Mul(Mul(Dec(1626, -1), q_), mu_), B_), Add(lg, skin_)),
      Mul(h_, dp))

(* The scalar re/rw is a Python float division: rw = 0.0 raises
   ZeroDivisionError. *)
ScalarRatioRaises(in) == IsZero(in.rw)
LogRatio(in) == Log(Div(in.re, in.rw))

(* lines 27-32: the outcome of the point estimate for given inputs. *)
ComputePermeability(in) ==
  LET dp == Sub(in.pe, in.pwf)
  IN IF Le(dp, Zero(1)) THEN [kind |-> "error", k |-> None]
     ELSE IF ScalarRatioRaises(in) THEN [kind |-> "raise", k |-> None]
     ELSE [kind |-> "value",
           k |-> Permeability(in.q, in.mu, in.B, LogRatio(in), in.skin,
                              in.h, dp)]

(* The swept ranges and the k_values of each sweep block. *)
re_range == Linspace(FromInt(200), FromInt(5000))
mu_range == Linspace(Dec(2, -1), FromInt(5))
dp_range == Linspace(FromInt(100), FromInt(3000))
pe_range(in) == Linspace(Add(in.pwf, FromInt(100)), FromInt(5000))
pwf_range(in) == Linspace(FromInt(100), Sub(in.pe, FromInt(50)))
s_range == Linspace(FromInt(-5), FromInt(20))
q_range == Linspace(FromInt(100), FromInt(4000))
h_range == Linspace(FromInt(5), FromInt(100))

(* line 49: re_range / rw is an array division, it never raises *)
k_values_re(in) ==
  [i \in 1..NumSamples |->
     Permeability(in.q, in.mu, in.B, Log(Div(re_range[i], in.rw)), in.skin,
                  in.h, in.delta_p)]
(* line 54 *)
k_values_mu(in) ==
  LET lg == LogRatio(in)
  IN [i \in 1..NumSamples |->
        Permeability(in.q, mu_range[i], in.B, lg, in.skin, in.h, in.delta_p)]
(* Mutant of k_values_dp: the sample multiplies the base drawdown instead of
   replacing it. *)
k_values_dp_scaled(in) ==
  LET lg == Log(Div(in.re, in.rw))
  IN [i \in 1..NumSamples |->
        Div(Mul(Mul(Mul(Mul(Dec(1626, -1), in.q), in.mu), in.B),
                Add(lg, in.skin)),
            Mul(in.h, Mul(dp_range[i], in.delta_p)))]

(* line 59 *)
k_values_dp(in) ==
  LET lg == LogRatio(in)
  IN [i \in 1..NumSamples |->
        Permeability(in.q, in.mu, in.B, lg, in.skin, in.h, dp_range[i])]
(* line 64 *)
k_values_pe(in) ==
  LET lg == LogRatio(in)
      xs == pe_range(in)
  IN [i \in 1..NumSamples |->
        Permeability(in.q, in.mu, in.B, lg, in.skin, in.h,
                     Sub(xs[i], in.pwf))]
(* line 69 *)
k_values_pwf(in) ==
  LET lg == LogRatio(in)
      xs == pwf_range(in)
  IN [i \in 1..NumSamples |->
        Permeability(in.q, in.mu, in.B, lg, in.skin, in.h,
                     Sub(in.pe, xs[i]))]
(* line 74 *)
k_values_s(in) ==
  LET lg == LogRatio(in)
  IN [i \in 1..NumSamples |->
        Permeability(in.q, in.mu, in.B, lg, s_range[i], in.h, in.delta_p)]
(* line 79 *)
k_values_q(in) ==
  LET lg == LogRatio(in)
  IN [i \in 1..NumSamples |->
        Permeability(q_range[i], in.mu, in.B, lg, in.skin, in.h, in.delta_p)]
(* line 84 *)
k_values_h(in) ==
  LET lg == LogRatio(in)
  IN [i \in 1..NumSamples |->
        Permeability(in.q, in.mu, in.B, lg, in.skin, h_range[i], in.delta_p)]

LabelRe == "Sensitivity to re"
LabelMu == "Sensitivity to mu"
LabelDp == "Sensitivity to dP"
LabelPe == "Sensitivity to Pe"
LabelPwf == "Sensitivity to Pwf"
LabelSkin == "Sensitivity to Skin"
LabelQ == "Sensitivity to q"
LabelH == "Sensitivity to h"

Init ==
  /\ q = FromInt(500) /\ pe = FromInt(2000) /\ pwf = FromInt(1000)
  /\ h = FromInt(20) /\ mu = FromInt(1) /\ B = FromInt(1)
  /\ re = FromInt(1000) /\ rw = Dec(333, -3) /\ skin = Zero(1)
  /\ options = {OptRe}
  /\ delta_p = None /\ k = None /\ message = <<>>
  /\ ax = <<>> /\ shown = FALSE /\ exception = "none" /\ pc = "calc"

(* An uncaught exception ends the run. *)
Raise ==
  /\ pc' = "aborted"
  /\ exception' = "ZeroDivisionError"

(* lines 27-32 *)
PointEstimate ==
  /\ pc = "calc"
  /\ delta_p' = Sub(pe, pwf)
  /\ LET r == ComputePermeability(Snapshot)
     IN IF r.kind = "error"
        THEN /\ message' = <<[kind |-> "error", text |-> ErrorText]>>
             /\ k' = k /\ pc' = "re" /\ exception' = exception
        ELSE IF r.kind = "raise"
        THEN Raise /\ UNCHANGED <<k, message>>
        ELSE /\ k' = r.k
             /\ message' = <<[kind |-> "success", text |-> Format2f(r.k)]>>
             /\ pc' = "re" /\ exception' = exception
  /\ UNCHANGED <<inputs, ax, shown>>

(* One "if <label> in options:" block: xs is the swept range, ys the
   k_values, raises tells whether evaluating them raises. *)
Sweep(here, next, opt, label, xs, ys, raises) ==
  /\ pc = here
  /\ IF opt \in options
     THEN IF raises
          THEN Raise /\ ax' = ax
          ELSE /\ ax' = Append(ax, [label |-> label, x |-> xs, y |-> ys])
               /\ pc' = next /\ exception' = exception
     ELSE pc' = next /\ ax' = ax /\ exception' = exception
  /\ UNCHANGED <<inputs, delta_p, k, message, shown>>

(* lines 47-50 *)
SweepRe ==
  Sweep("re", "mu", OptRe, LabelRe, re_range, k_values_re(Snapshot), FALSE)
(* lines 52-55 *)
SweepMu ==
  Sweep("mu", "dp", OptMu, LabelMu, mu_range, k_values_mu(Snapshot),
        ScalarRatioRaises(Snapshot))
(* lines 57-60 *)
SweepDp ==
  Sweep("dp", "pe", OptDp, LabelDp, dp_range, k_values_dp(Snapshot),
        ScalarRatioRaises(Snapshot))
(* lines 62-65 *)
SweepPe ==
  Sweep("pe", "pwf", OptPe, LabelPe, pe_range(Snapshot),
        k_values_pe(Snapshot), ScalarRatioRaises(Snapshot))
(* lines 67-70 *)
SweepPwf ==
  Sweep("pwf", "skin", OptPwf, LabelPwf, pwf_range(Snapshot),
        k_values_pwf(Snapshot), ScalarRatioRaises(Snapshot))
(* lines 72-75 *)
SweepSkin ==
  Sweep("skin", "q", OptSkin, LabelSkin, s_range, k_values_s(Snapshot),
        ScalarRatioRaises(Snapshot))
(* lines 77-80 *)
SweepQ ==
  Sweep("q", "h", OptQ, LabelQ, q_range, k_values_q(Snapshot),
        ScalarRatioRaises(Snapshot))
(* lines 82-85 *)
SweepH ==
  Sweep("h", "render", OptH, LabelH, h_range, k_values_h(Snapshot),
        ScalarRatioRaises(Snapshot))

(* lines 87-91: st.pyplot(fig) *)
Render ==
  /\ pc = "render"
  /\ shown' = TRUE
  /\ pc' = "done"
  /\ UNCHANGED <<inputs, delta_p, k, message, ax, exception>>

(* A widget interaction reruns the script from the top. *)
Restart ==
  /\ pc \in {"done", "aborted"}
  /\ pc' = "calc"
  /\ delta_p' = None /\ k' = None /\ message' = <<>>
  /\ ax' = <<>> /\ shown' = FALSE /\ exception' = "none"

(* lines 16-24: one number input is edited *)
SetNumber ==
  /\ Restart
  /\ \/ q' \in qInputs /\ UNCHANGED <<pe, pwf, h, mu, B, re, rw, skin>>
     \/ pe' \in peInputs /\ UNCHANGED <<q, pwf, h, mu, B, re, rw, skin>>
     \/ pwf' \in pwfInputs /\ UNCHANGED <<q, pe, h, mu, B, re, rw, skin>>
     \/ h' \in hInputs /\ UNCHANGED <<q, pe, pwf, mu, B, re, rw, skin>>
     \/ mu' \in muInputs /\ UNCHANGED <<q, pe, pwf, h, B, re, rw, skin>>
     \/ B' \in BInputs /\ UNCHANGED <<q, pe, pwf, h, mu, re, rw, skin>>
     \/ re' \in reInputs /\ UNCHANGED <<q, pe, pwf, h, mu, B, rw, skin>>
     \/ rw' \in rwInputs /\ UNCHANGED <<q, pe, pwf, h, mu, B, re, skin>>
     \/ skin' \in skinInputs /\ UNCHANGED <<q, pe, pwf, h, mu, B, re, rw>>
  /\ UNCHANGED options

(* lines 37-43: one option is added to or removed from the multiselect *)
SetOptions ==
  /\ Restart
  /\ \E o \in AllOptions :
       IF o \in options THEN options' = options \ {o}
       ELSE Cardinality(options) < MaxSelected /\ options' = options \cup {o}
  /\ UNCHANGED <<q, pe, pwf, h, mu, B, re, rw, skin>>

Next ==
  \/ PointEstimate
  \/ SweepRe \/ SweepMu \/ SweepDp \/ SweepPe \/ SweepPwf
  \/ SweepSkin \/ SweepQ \/ SweepH
  \/ Render
  \/ SetNumber \/ SetOptions

Spec == Init /\ [][Next]_vars

----------------------------------------------------------------------------
(* Vocabulary of the properties. *)

Lines == {ax[i] : i \in DOMAIN ax}
HasLine(label) == \E l \in Lines : l.label = label
Increasing(ys) == \A i \in 1..(NumSamples - 1) : Lt(ys[i], ys[i + 1])
Decreasing(ys) == \A i \in 1..(NumSamples - 1) : Gt(ys[i], ys[i + 1])
NonDecreasing(ys) == \A i \in 1..(NumSamples - 1) : Le(ys[i], ys[i + 1])
Positive(a) == Gt(a, Zero(1))

PointDone == pc # "calc"
RunEnded == pc \in {"done", "aborted"}
ErrorShown ==
  \E i \in DOMAIN message :
    message[i].kind = "error" /\ message[i].text = ErrorText
ResultShown == \E i \in DOMAIN message : message[i].kind = "success"

(* The series an option is expected to draw; the script has no block for
   the formation volume factor. *)
SeriesLabel(o) ==
  CASE o = OptRe -> LabelRe [] o = OptMu -> LabelMu [] o = OptDp -> LabelDp
    [] o = OptPe -> LabelPe [] o = OptPwf -> LabelPwf
    [] o = OptSkin -> LabelSkin [] o = OptQ -> LabelQ [] o = OptH -> LabelH
    [] o = OptB -> "Sensitivity to B"
Wired == AllOptions \ {OptB}

(* The snapshot with the field swept by a series replaced by one sample. *)
WithAxis(label, v) ==
  CASE label = LabelRe -> [Snapshot EXCEPT !.re = v]
    [] label = LabelMu -> [Snapshot EXCEPT !.mu = v]
    [] label = LabelPe -> [Snapshot EXCEPT !.pe = v]
    [] label = LabelPwf -> [Snapshot EXCEPT !.pwf = v]
    [] label = LabelSkin -> [Snapshot EXCEPT !.skin = v]
    [] label = LabelQ -> [Snapshot EXCEPT !.q = v]
    [] label = LabelH -> [Snapshot EXCEPT !.h = v]

(* The formula of the page header evaluated on a snapshot's nine inputs. *)
KAt(in) ==
  Permeability(in.q, in.mu, in.B, Log(Div(in.re, in.rw)), in.skin, in.h,
               Sub(in.pe, in.pwf))

IsDefault ==
  /\ q = FromInt(500) /\ pe = FromInt(2000) /\ pwf = FromInt(1000)
  /\ h = FromInt(20) /\ mu = FromInt(1) /\ B = FromInt(1)
  /\ re = FromInt(1000) /\ rw = Dec(333, -3) /\ skin = Zero(1)

----------------------------------------------------------------------------
(* C1: once the point estimate has run, the error message is shown iff
   pe <= pwf, no permeability is computed with it, and exactly one of the
   error message and the numeric result is shown. *)
C1_ErrorIffExactlyOne ==
  PointDone =>
    /\ ErrorShown <=> Le(pe, pwf)
    /\ ErrorShown => k = None
    /\ ErrorShown # ResultShown

(* C2: the re series has 50 pairs, runs from 200 to 5000 strictly
   increasing, and each k is the outcome of the point estimate with re
   replaced by the sample, a validation failure included. *)
C2_ReSeriesIsPointEstimate ==
  \A l \in Lines :
    l.label = LabelRe =>
      /\ DOMAIN l.x = 1..NumSamples /\ DOMAIN l.y = 1..NumSamples
      /\ l.x[1] = FromInt(200) /\ l.x[NumSamples] = FromInt(5000)
      /\ Increasing(l.x)
      /\ \A i \in 1..NumSamples :
           LET r == ComputePermeability([Snapshot EXCEPT !.re = l.x[i]])
           IN r.kind = "value" /\ r.k = l.y[i]

(* C3: in every series the samples appear in increasing order of the swept
   value. *)
C3_SamplesIncreasing == \A l \in Lines : NonDecreasing(l.x)

(* C4: every pwf sample is below the current pe and every pe sample is
   above the current pwf, so every swept drawdown is positive. *)
C4_PressureSamplesValid ==
  \A l \in Lines :
    /\ l.label = LabelPwf =>
         \A i \in 1..NumSamples :
           Lt(l.x[i], pe) /\ Positive(Sub(pe, l.x[i]))
    /\ l.label = LabelPe =>
         \A i \in 1..NumSamples :
           Gt(l.x[i], pwf) /\ Positive(Sub(l.x[i], pwf))

(* C5: a finished evaluation holds exactly one series of 50 pairs for each
   selected option and none for the others. *)
C5_OneSeriesPerSelected ==
  pc = "done" =>
    \A o \in AllOptions :
      LET at == {i \in DOMAIN ax : ax[i].label = SeriesLabel(o)}
      IN /\ Cardinality(at) = (IF o \in options THEN 1 ELSE 0)
         /\ \A i \in at : DOMAIN ax[i].x = 1..NumSamples
                          /\ DOMAIN ax[i].y = 1..NumSamples

(* Values tried for one input while the others are held, in the
   monotonicity statements. *)
PositiveTrials == {FromInt(2), FromInt(30), FromInt(700)}
SkinTrials == {FromInt(-5), Zero(1), FromInt(20)}

(* k strictly increasing (dir = 1) or decreasing (dir = -1) along the
   trials vs of the input replaced by put(v). *)
MonotoneIn(put(_), vs, dir) ==
  \A a, b \in vs :
    Lt(a, b) => IF dir = 1 THEN Lt(KAt(put(a)), KAt(put(b)))
                ELSE Gt(KAt(put(a)), KAt(put(b)))

KMonotone ==
  LET putQ(v) == [Snapshot EXCEPT !.q = v]
      putMu(v) == [Snapshot EXCEPT !.mu = v]
      putB(v) == [Snapshot EXCEPT !.B = v]
      putS(v) == [Snapshot EXCEPT !.skin = v]
      putH(v) == [Snapshot EXCEPT !.h = v]
      putDp(v) == [Snapshot EXCEPT !.pe = Add(pwf, v)]
  IN /\ MonotoneIn(putQ, PositiveTrials, 1)
     /\ MonotoneIn(putMu, PositiveTrials, 1)
     /\ MonotoneIn(putB, PositiveTrials, 1)
     /\ MonotoneIn(putS, SkinTrials, 1)
     /\ MonotoneIn(putH, PositiveTrials, -1)
     /\ MonotoneIn(putDp, PositiveTrials, -1)

SeriesMonotone ==
  \A l \in Lines :
    /\ l.label \in {LabelQ, LabelMu, LabelSkin} => Increasing(l.y)
    /\ l.label \in {LabelH, LabelDp} => Decreasing(l.y)

C6_StatedCase == Gt(pe, pwf) /\ Gt(Div(re, rw), FromInt(1))
C6_PositiveCase ==
  /\ Gt(pe, pwf) /\ Positive(rw) /\ Gt(re, rw)
  /\ Positive(q) /\ Positive(mu) /\ Positive(B) /\ Positive(h)
  /\ Positive(Add(LogRatio(Snapshot), skin))

(* C6 as stated: with pe > pwf and re/rw > 1, k is strictly decreasing in h
   and in pe - pwf and strictly increasing in q, mu, B and s, and the q, mu
   and s series are strictly increasing, the h and dP series strictly
   decreasing. *)
C6_MonotoneAsStated == C6_StatedCase => KMonotone /\ SeriesMonotone

(* C6 amended: the same monotonicity, for inputs with pe > pwf, re > rw > 0,
   q, mu, B, h > 0 and ln(re/rw) + s > 0. *)
C6_MonotonePositive == C6_PositiveCase => KMonotone /\ SeriesMonotone

C6_Witness ==
  /\ C6_PositiveCase /\ pc = "done"
  /\ \E l \in Lines : l.label \in {LabelSkin, LabelQ, LabelH}

(* C7 as stated: the default inputs give 68.72 mD. *)
C7_DefaultIs6872 ==
  (IsDefault /\ PointDone) =>
    message = <<[kind |-> "success", text |-> Dec(6872, -2)]>>

(* C7 amended: the default inputs give the value of the formula,
   162.6*500*1*1*(ln(1000/0.333)+0)/(20*1000), shown as 32.55 mD. *)
C7_DefaultIs3255 ==
  (IsDefault /\ PointDone) =>
    /\ exception = "none"
    /\ k = Div(Mul(Mul(Mul(Mul(Dec(1626, -1), FromInt(500)), FromInt(1)),
                       FromInt(1)),
                   Add(Log(Div(FromInt(1000), Dec(333, -3))), Zero(1))),
               Mul(FromInt(20), FromInt(1000)))
    /\ message = <<[kind |-> "success", text |-> Dec(3255, -2)]>>

C7_Witness == IsDefault /\ pc = "re" /\ ResultShown

(* C8: when pe <= pwf a run ends with only the error message shown, no
   point estimate, and a series for every selected option that has a sweep
   block, the q, h, re, mu and s series computed from pe - pwf <= 0. *)
C8_SweepsNotGated ==
  (RunEnded /\ Le(pe, pwf)) =>
    /\ message = <<[kind |-> "error", text |-> ErrorText]>>
    /\ k = None
    /\ shown
    /\ \A o \in options \cap Wired : HasLine(SeriesLabel(o))
    /\ LET base == [Snapshot EXCEPT !.delta_p = Sub(pe, pwf)]
       IN \A l \in Lines :
            /\ l.label = LabelQ => l.y = k_values_q(base)
            /\ l.label = LabelH => l.y = k_values_h(base)
            /\ l.label = LabelRe => l.y = k_values_re(base)
            /\ l.label = LabelMu => l.y = k_values_mu(base)
            /\ l.label = LabelSkin => l.y = k_values_s(base)

(* C9: the dP series is the same for every pe and pwf (samples 100..3000,
   k computed from the sample alone), and in every series each k is the
   formula on the current snapshot with only the swept field replaced by
   the sample. *)
C9_OthersHeldFixed ==
  RunEnded =>
  \A l \in Lines :
    IF l.label = LabelDp
    THEN /\ l.x[1] = FromInt(100) /\ l.x[NumSamples] = FromInt(3000)
         /\ \A i \in 1..NumSamples :
              l.y[i] = Permeability(q, mu, B, LogRatio(Snapshot), skin, h,
                                    l.x[i])
         /\ \A p1 \in peInputs, p2 \in pwfInputs :
              LET other == [Snapshot EXCEPT !.pe = p1, !.pwf = p2,
                                            !.delta_p = Sub(p1, p2)]
              IN l.x = dp_range /\ l.y = k_values_dp(other)
    ELSE \A i \in 1..NumSamples : l.y[i] = KAt(WithAxis(l.label, l.x[i]))

C9_Witness ==
  /\ pc = "done" /\ HasLine(LabelDp)
  /\ pe = FromInt(90) /\ pwf = FromInt(6000)

(* C10: no run is aborted by an exception. *)
C10_NoRunAborts == pc # "aborted" /\ exception = "none"

====
